---- MODULE Spec2Model ----
(***************************************************************************)
(* Two programs of the repository are modelled here.                       *)
(*                                                                         *)
(*  1. clippy_lints/src/rc_clone_in_vec_init.rs: the late lint pass        *)
(*     RcCloneInVecInit.  One action, check_expr, is the whole handler the *)
(*     lint driver calls once per expression.  Source text is a sequence   *)
(*     of one-character strings, so that contains('\n'), split_once and    *)
(*     format! are computed as the code computes them; the fixed pieces of *)
(*     the two suggestion templates and of the messages are kept as whole  *)
(*     multi-character chunks (they are only ever concatenated).           *)
(*                                                                         *)
(*  2. src/test/run-pass/task-comm-7.rs: test00 spawns four test00_start   *)
(*     tasks that send on channels to one port; the main task receives,    *)
(*     joins and checks the sum.                                           *)
(***************************************************************************)
EXTENDS Integers, Sequences, FiniteSets, TLC

VARIABLES
    expr,       \* the candidate expression of the latest check_expr call
    invoked,    \* check_expr has been called at least once
    matched,    \* symbol of check_expr: result of new_reference_call, or "None"
    diags,      \* diagnostics the latest call handed over, complete, to the sink
    aborted,    \* an unwrap() on None panicked: the pass is dead
    prev,       \* history: callee type spelling, resolution and result of the call before
    mpc,        \* test00: position of the main task
    mi,         \* test00: i of the main task's receive loop
    mj,         \* test00: index of the statement within the spawns, the loop body, the joins
    r,          \* test00: r
    sum,        \* test00: sum
    tasks,      \* test00: per spawned task: its state and its i
    chans,      \* test00: per channel of port p: the values sent and not yet received
    got         \* test00: how many times each value has been received

lintVars == <<expr, invoked, matched, diags, aborted, prev>>
taskVars == <<mpc, mi, mj, r, sum, tasks, chans, got>>
vars == <<lintVars, taskVars>>

None == "None"

(***************************************************************************)
(* Text helpers (Rust's str operations).                                   *)
(***************************************************************************)
NL == "\n"
\* the backquote character of the messages (a string literal cannot hold it)
BQ == "<backquote>"

\* str::contains(char)
contains(s, ch) == \E i \in 1..Len(s) : s[i] = ch

\* the pattern occurs in s starting at index i
MatchAt(s, pat, i) ==
    /\ i + Len(pat) - 1 <= Len(s)
    /\ SubSeq(s, i, i + Len(pat) - 1) = pat

\* str::find(&str): index of the first occurrence, 0 when there is none
find(s, pat) ==
    LET I == {i \in 1..(Len(s) + 1) : MatchAt(s, pat, i)}
    IN  IF I = {} THEN 0 ELSE CHOOSE i \in I : \A j \in I : i <= j

\* str::split_once(&str): None, or the text before and after the first occurrence
split_once(s, pat) ==
    LET i == find(s, pat)
    IN  IF i = 0 THEN [some |-> FALSE, left |-> <<>>, right |-> <<>>]
        ELSE [some  |-> TRUE,
              left  |-> SubSeq(s, 1, i - 1),
              right |-> SubSeq(s, i + Len(pat), Len(s))]

\* " ".repeat(n)
repeat(ch, n) == [i \in 1..n |-> ch]

\* Symbol::as_str for the symbols that occur
as_str(symbol) ==
    CASE symbol = "Rc"  -> <<"R", "c">>
      [] symbol = "Arc" -> <<"A", "r", "c">>
      [] symbol = "RcWeak" -> <<"R", "c", "W", "e", "a", "k">>
      [] symbol = "new" -> <<"n", "e", "w">>
      [] symbol = "default" -> <<"d", "e", "f", "a", "u", "l", "t">>
      [] OTHER -> <<>>

(***************************************************************************)
(* What the compiler answers about a candidate (the inputs of the pass).   *)
(***************************************************************************)
Some(v) == [some |-> TRUE, val |-> v]
NoText == [some |-> FALSE, val |-> <<>>]
NoIndent == [some |-> FALSE, val |-> 0]
NoMacro == [some |-> FALSE, val |-> 0]

\* declaration identities a callee type can resolve to (None: no DefId)
DefIds == {"alloc::rc::Rc", "alloc::sync::Arc", "alloc::rc::Weak", "user::Rc"}

\* tcx.get_diagnostic_name: the rustc_diagnostic_item of a declaration
get_diagnostic_name(def_id) ==
    CASE def_id = "alloc::rc::Rc"    -> "Rc"
      [] def_id = "alloc::sync::Arc" -> "Arc"
      [] def_id = "alloc::rc::Weak"  -> "RcWeak"
      [] OTHER -> None

\* snippet(cx, span, default): the source text of the span, or the default
snippet(src, default) == IF src.some THEN src.val ELSE default

\* indent_of(cx, span).unwrap_or(0)
indent_of_or_0(ind) == IF ind.some THEN ind.val ELSE 0

(***************************************************************************)
(* The pass.                                                               *)
(***************************************************************************)
\* a faulty new_reference_call that leaves out the test for new; C1 tells it apart
new_reference_call_any_method(elem) ==
    IF /\ elem.kind = "Call"
       /\ elem.func = "TypeRelative"
       /\ elem.ty = "Path"
       /\ elem.res # None
    THEN LET symbol == get_diagnostic_name(elem.res)
         IN  IF symbol = "Arc" \/ symbol = "Rc" THEN symbol ELSE None
    ELSE None

\* a faulty new_reference_call that decides by the spelling of the type; C8 tells it apart
new_reference_call_by_spelling(elem) ==
    IF /\ elem.kind = "Call"
       /\ elem.func = "TypeRelative"
       /\ elem.ty = "Path"
       /\ elem.res # None
       /\ elem.seg = "new"
    THEN IF elem.ty_src = as_str("Rc") THEN "Rc"
         ELSE IF elem.ty_src = as_str("Arc") THEN "Arc" ELSE None
    ELSE None

\* Option<Symbol>: "Rc", "Arc" or None
new_reference_call(elem) ==
    IF /\ elem.kind = "Call"
       /\ elem.func = "TypeRelative"
       /\ elem.ty = "Path"
       /\ elem.res # None
       /\ elem.seg = "new"
    THEN LET symbol == get_diagnostic_name(elem.res)
         IN  IF symbol = "Arc" \/ symbol = "Rc" THEN symbol ELSE None
    ELSE None

\* [ok |-> FALSE]: the unwrap() of line 98 panicked
elem_snippet(elem, symbol_name) ==
    LET elem_snip == snippet(elem.src, <<".", ".">>)
    IN  IF contains(elem_snip, NL)
        THEN LET reference_creation == symbol_name \o <<":", ":", "n", "e", "w">>
                 parts == split_once(elem_snip, reference_creation)
             IN  IF parts.some
                 THEN [ok  |-> TRUE,
                       val |-> parts.left \o reference_creation \o <<"(", ".", ".", ")">>]
                 ELSE [ok |-> FALSE, val |-> <<>>]
        ELSE [ok |-> TRUE, val |-> elem_snip]

loop_init_suggestion(elem, len, indent) ==
    <<"{", NL>>
    \o indent \o indent \o <<"let mut v = Vec::with_capacity(">> \o len \o <<");", NL>>
    \o indent \o indent \o <<"(0..">> \o len \o <<").for_each(|_| v.push(">> \o elem \o <<"));", NL>>
    \o indent \o indent \o <<"v", NL>>
    \o indent \o <<"}">>

extract_suggestion(elem, len, indent) ==
    <<"{", NL>>
    \o indent \o indent \o <<"let data = ">> \o elem \o <<";", NL>>
    \o indent \o indent \o <<"vec![data; ">> \o len \o <<"]", NL>>
    \o indent \o <<"}">>

\* a faulty construct_lint_suggestions with the two suggestions swapped; C5 tells it apart
construct_lint_suggestions_swapped(e, symbol_name) ==
    LET len_snippet == snippet(e.len_src, <<".", ".">>)
        es == elem_snippet(e.elem, symbol_name)
        indentation == repeat(" ", indent_of_or_0(e.indent))
    IN  IF ~es.ok THEN [ok |-> FALSE, val |-> <<>>]
        ELSE [ok |-> TRUE, val |-> <<
              [message |-> <<"or if this is intentional, consider extracting the ", BQ>>
                            \o symbol_name \o <<BQ, " initialization to a variable">>,
               snippet |-> extract_suggestion(es.val, len_snippet, indentation)],
              [message |-> <<"consider initializing each ", BQ>> \o symbol_name
                            \o <<BQ, " element individually">>,
               snippet |-> loop_init_suggestion(es.val, len_snippet, indentation)] >>]

\* Vec<LintSuggestion>, or [ok |-> FALSE] when elem_snippet panicked
construct_lint_suggestions(e, symbol_name) ==
    LET len_snippet == snippet(e.len_src, <<".", ".">>)
        es == elem_snippet(e.elem, symbol_name)
        indentation == repeat(" ", indent_of_or_0(e.indent))
    IN  IF ~es.ok THEN [ok |-> FALSE, val |-> <<>>]
        ELSE [ok |-> TRUE, val |-> <<
              [message |-> <<"consider initializing each ", BQ>> \o symbol_name
                            \o <<BQ, " element individually">>,
               snippet |-> loop_init_suggestion(es.val, len_snippet, indentation)],
              [message |-> <<"or if this is intentional, consider extracting the ", BQ>>
                            \o symbol_name \o <<BQ, " initialization to a variable">>,
               snippet |-> extract_suggestion(es.val, len_snippet, indentation)] >>]

\* span_lint_and_then builds the diagnostic at lint_span with the message, runs the
\* closure on it (note, then one span_suggestion per suggestion) and emits it.  The
\* closure's first statement is construct_lint_suggestions: when that panics nothing
\* has been emitted.
emit_lint(e, symbol, lint_span) ==
    LET symbol_name == as_str(symbol)
        suggestions == construct_lint_suggestions(e, symbol_name)
    IN  IF ~suggestions.ok
        THEN [aborted |-> TRUE, diags |-> <<>>]
        ELSE [aborted |-> FALSE,
              diags |-> << [
                span    |-> lint_span,
                lint    |-> "RC_CLONE_IN_VEC_INIT",
                message |-> <<"calling ", BQ>> \o symbol_name
                            \o <<"::new", BQ, " in ", BQ, "vec![elem; len]", BQ>>,
                notes   |-> << <<"each element will point to the same ", BQ>>
                               \o symbol_name \o <<BQ, " instance">> >>,
                suggestions |-> [k \in 1..Len(suggestions.val) |->
                    [span          |-> lint_span,
                     message       |-> suggestions.val[k].message,
                     snippet       |-> suggestions.val[k].snippet,
                     applicability |-> "Unspecified"]] ] >>]

\* what the next call remembers of this one: the callee type of an element that is
\* a Type::new(..) call with a resolved type, and what the matcher said of it
NoSummary == [eligible |-> FALSE, ty_src |-> <<>>, res |-> None, matched |-> None]

Summary(e, m) ==
    IF /\ e.macro_call.some /\ e.vec_args = "Repeat"
       /\ e.elem.kind = "Call" /\ e.elem.func = "TypeRelative"
       /\ e.elem.ty = "Path" /\ e.elem.seg = "new"
    THEN [eligible |-> TRUE, ty_src |-> e.elem.ty_src, res |-> e.elem.res, matched |-> m]
    ELSE NoSummary

(***************************************************************************)
(* Candidate expressions.  The source text of a Type::method(args) element *)
(* is the spelling of the type, "::", the method name and the arguments;   *)
(* what the type resolves to is independent of how it is spelled (use ..   *)
(* as .., shadowing).                                                      *)
(***************************************************************************)
TySpellings ==
    { <<"R", "c">>,                                \* Rc
      <<"A", "r", "c">>,                           \* Arc
      <<"P", "t", "r">>,                           \* Ptr   (use .. as Ptr)
      <<"M", "y", "R", "c">>,                      \* MyRc  (use .. as MyRc)
      <<"r", "c", ":", ":", NL, "R", "c">> }       \* rc:: <line break> Rc

ArgTexts ==
    { <<"(", "1", ")">>,                                              \* (1)
      <<"(", NL, "1", ")">>,                                          \* ( <line break> 1)
      <<"(", ".", ".", ")">>,                                         \* (..)
      <<"(", NL, "R", "c", ":", ":", "n", "e", "w", "(", "1", ")", ")">> } \* ( <line break> Rc::new(1))

CallText(ty_src, seg, args) == ty_src \o <<":", ":">> \o as_str(seg) \o args

TypeRelativeElems ==
    { [kind |-> "Call", func |-> "TypeRelative", ty |-> "Path", res |-> d,
       seg |-> "new", ty_src |-> t, src |-> Some(CallText(t, "new", a))] :
         t \in TySpellings, d \in DefIds \cup {None}, a \in ArgTexts }
    \cup
    { [kind |-> "Call", func |-> "TypeRelative", ty |-> "Path", res |-> d,
       seg |-> "default", ty_src |-> t, src |-> Some(CallText(t, "default", <<"(", ")">>))] :
         t \in TySpellings, d \in DefIds \cup {None} }

RcNewElem ==
    [kind |-> "Call", func |-> "TypeRelative", ty |-> "Path", res |-> "alloc::rc::Rc",
     seg |-> "new", ty_src |-> <<"R", "c">>,
     src |-> Some(CallText(<<"R", "c">>, "new", <<"(", "1", ")">>))]

LitElem ==
    [kind |-> "Lit", func |-> "NotPath", ty |-> "Path", res |-> None,
     seg |-> "new", ty_src |-> <<>>, src |-> Some(<<"1">>)]

OtherElems ==
    { LitElem,
      \* f( <line break> 1): a call of a plain function path
      [kind |-> "Call", func |-> "Resolved", ty |-> "Path", res |-> "alloc::rc::Rc",
       seg |-> "new", ty_src |-> <<>>, src |-> Some(<<"f", "(", NL, "1", ")">>)],
      \* <[u8]>::new(1): the type of the type-relative path is not a path
      [kind |-> "Call", func |-> "TypeRelative", ty |-> "Slice", res |-> None,
       seg |-> "new", ty_src |-> <<"<", "[", "u", "8", "]", ">">>,
       src |-> Some(CallText(<<"<", "[", "u", "8", "]", ">">>, "new", <<"(", "1", ")">>))],
      \* x.new(): a method call
      [kind |-> "MethodCall", func |-> "NotPath", ty |-> "Path", res |-> None,
       seg |-> "new", ty_src |-> <<>>, src |-> Some(<<"x", ".", "n", "e", "w", "(", ")">>)],
      \* Rc::new(..) whose source text cannot be had
      [RcNewElem EXCEPT !.src = NoText] }

\* the macro call's span, the text of the length expression, the indentation
Envs ==
    { [macro_call |-> Some(1), len_src |-> Some(<<"2">>), indent |-> NoIndent],
      [macro_call |-> Some(2), len_src |-> Some(<<"n">>), indent |-> Some(2)],
      [macro_call |-> Some(1), len_src |-> NoText, indent |-> Some(0)] }

\* VecArgs::hir answers Some only for an expansion of vec!, so that a Vec or Repeat
\* candidate always has a root macro call
Candidates ==
    { [macro_call |-> v.macro_call, vec_args |-> "Repeat", elem |-> el,
       len_src |-> v.len_src, indent |-> v.indent] :
         el \in TypeRelativeElems \cup OtherElems, v \in Envs }
    \cup
    { [macro_call |-> m, vec_args |-> "None", elem |-> el,
       len_src |-> NoText, indent |-> NoIndent] :
         m \in {NoMacro, Some(1)}, el \in {LitElem, RcNewElem} }
    \cup
    { [macro_call |-> Some(1), vec_args |-> "Vec", elem |-> el,
       len_src |-> NoText, indent |-> NoIndent] : el \in {LitElem, RcNewElem} }

\* the candidates of PairSpec: every spelling and every resolution of the callee
\* type, one argument text, one macro span
PairCandidates ==
    { c \in Candidates :
        /\ c.macro_call.some => c.macro_call.val = 1
        /\ c.vec_args = "Repeat" => c.len_src = Some(<<"2">>)
        /\ c.elem.src.some
        /\ (c.elem.kind = "Call" /\ c.elem.func = "TypeRelative" /\ c.elem.ty = "Path"
              /\ c.elem.seg = "new")
             => c.elem.src.val = CallText(c.elem.ty_src, "new", <<"(", "1", ")">>) }

NoCandidate ==
    [macro_call |-> NoMacro, vec_args |-> "None", elem |-> LitElem,
     len_src |-> NoText, indent |-> NoIndent]

LintInit ==
    /\ expr = NoCandidate
    /\ invoked = FALSE
    /\ matched = None
    /\ diags = <<>>
    /\ aborted = FALSE
    /\ prev = NoSummary

\* LateLintPass::check_expr, the whole handler
check_expr(e) ==
    /\ ~aborted
    /\ expr' = e
    /\ invoked' = TRUE
    /\ IF ~e.macro_call.some
       THEN matched' = None /\ diags' = <<>> /\ aborted' = FALSE
       ELSE IF e.vec_args # "Repeat"
       THEN matched' = None /\ diags' = <<>> /\ aborted' = FALSE
       ELSE LET symbol == new_reference_call(e.elem)
            IN  IF symbol = None
                THEN matched' = None /\ diags' = <<>> /\ aborted' = FALSE
                ELSE LET out == emit_lint(e, symbol, e.macro_call.val)
                     IN  /\ matched' = symbol
                         /\ diags' = out.diags
                         /\ aborted' = out.aborted
    /\ UNCHANGED taskVars

(***************************************************************************)
(* test00 of task-comm-7.rs.                                               *)
(***************************************************************************)
MaxMessages == 3
\* number_of_messages is 10 in the test; the model is checked for smaller values
number_of_messages == MaxMessages
NumTasks == 4
Tasks == 0..(NumTasks - 1)
Values == 0..(NumTasks * number_of_messages - 1)

TaskInit ==
    /\ mpc = "spawn"
    /\ mi = 0
    /\ mj = 0
    /\ r = 0
    /\ sum = 0
    /\ tasks = [k \in Tasks |-> [st |-> "unspawned", start |-> 0, n |-> 0, i |-> 0]]
    /\ chans = [k \in Tasks |-> <<>>]
    /\ got = [v \in Values |-> 0]

\* a faulty message that sends the start value every time; C9 tells it apart
message_without_i(start, i) == start

\* the value test00_start sends at iteration i
message(start, i) == start + i

\* let task tk = spawn test00_start(chan(p), number_of_messages * k, number_of_messages);
\* after the fourth: let int i = 0
spawn ==
    /\ mpc = "spawn"
    /\ tasks' = [tasks EXCEPT ![mj] = [st |-> "running",
                                        start |-> number_of_messages * mj,
                                        n |-> number_of_messages, i |-> 0]]
    /\ IF mj = NumTasks - 1
       THEN mpc' = "loop" /\ mj' = 0 /\ mi' = 0
       ELSE mpc' = "spawn" /\ mj' = mj + 1 /\ mi' = mi
    /\ UNCHANGED <<r, sum, chans, got>>
    /\ UNCHANGED lintVars

\* a faulty test00_start_send whose last send never reaches the channel; C10 tells it apart
test00_start_send_last_lost(k) ==
    /\ tasks[k].st = "running"
    /\ tasks[k].i < tasks[k].n
    /\ chans' = [chans EXCEPT ![k] = IF tasks[k].i + 1 < tasks[k].n
                                      THEN Append(@, message(tasks[k].start, tasks[k].i))
                                      ELSE @]
    /\ tasks' = [tasks EXCEPT ![k].i = @ + 1]
    /\ UNCHANGED <<mpc, mi, mj, r, sum, got>>
    /\ UNCHANGED lintVars

\* test00_start: while (i < number_of_messages) { c <| start + i; i += 1; }
\* The send queues the value on the task's channel and does not wait for the receiver.
test00_start_send(k) ==
    /\ tasks[k].st = "running"
    /\ tasks[k].i < tasks[k].n
    /\ chans' = [chans EXCEPT ![k] = Append(@, message(tasks[k].start, tasks[k].i))]
    /\ tasks' = [tasks EXCEPT ![k].i = @ + 1]
    /\ UNCHANGED <<mpc, mi, mj, r, sum, got>>
    /\ UNCHANGED lintVars

\* test00_start: the loop ends and the task with it
test00_start_exit(k) ==
    /\ tasks[k].st = "running"
    /\ ~(tasks[k].i < tasks[k].n)
    /\ tasks' = [tasks EXCEPT ![k].st = "done"]
    /\ UNCHANGED <<mpc, mi, mj, r, sum, chans, got>>
    /\ UNCHANGED lintVars

\* r <- p; sum += r;  (four times per iteration, then i += 1).  The receive blocks
\* until some channel of the port holds a value and takes the oldest of one of them.
receive(k) ==
    /\ mpc = "loop"
    /\ mi < number_of_messages
    /\ chans[k] # <<>>
    /\ r' = Head(chans[k])
    /\ sum' = sum + Head(chans[k])
    /\ chans' = [chans EXCEPT ![k] = Tail(@)]
    /\ got' = [got EXCEPT ![Head(chans[k])] = @ + 1]
    /\ IF mj = NumTasks - 1
       THEN mj' = 0 /\ mi' = mi + 1
       ELSE mj' = mj + 1 /\ mi' = mi
    /\ UNCHANGED <<mpc, tasks>>
    /\ UNCHANGED lintVars

\* the receive loop ends
loop_exit ==
    /\ mpc = "loop"
    /\ ~(mi < number_of_messages)
    /\ mpc' = "join"
    /\ mj' = 0
    /\ UNCHANGED <<mi, r, sum, tasks, chans, got>>
    /\ UNCHANGED lintVars

\* join tk: blocks until the task has ended
join ==
    /\ mpc = "join"
    /\ tasks[mj].st = "done"
    /\ IF mj = NumTasks - 1
       THEN mpc' = "check" /\ mj' = 0
       ELSE mpc' = "join" /\ mj' = mj + 1
    /\ UNCHANGED <<mi, r, sum, tasks, chans, got>>
    /\ UNCHANGED lintVars

\* check (sum == (((number_of_messages * 4) * ((number_of_messages * 4) - 1)) / 2))
check ==
    /\ mpc = "check"
    /\ mpc' = IF sum = ((number_of_messages * 4) * ((number_of_messages * 4) - 1)) \div 2
              THEN "done" ELSE "failed"
    /\ UNCHANGED <<mi, mj, r, sum, tasks, chans, got>>
    /\ UNCHANGED lintVars

(***************************************************************************)
(* Specifications.                                                         *)
(***************************************************************************)
Init == LintInit /\ TaskInit

Next == \E e \in Candidates : check_expr(e) /\ prev' = prev

\* the lint pass, called on one candidate after another
Spec == Init /\ [][Next]_vars

PairNext == \E e \in PairCandidates : check_expr(e) /\ prev' = Summary(expr, matched)

\* the lint pass called on one candidate after another, each call remembering the
\* callee type and the result of the one before
PairSpec == Init /\ [][PairNext]_vars

TaskNext ==
    \/ spawn
    \/ \E k \in Tasks : test00_start_send(k)
    \/ \E k \in Tasks : test00_start_exit(k)
    \/ \E k \in Tasks : receive(k)
    \/ loop_exit
    \/ join
    \/ check

\* test00, every interleaving of the five tasks
TaskSpec == Init /\ [][TaskNext]_vars

\* test00 under a scheduler that never stops while some task can take a step (no
\* step of test00 can be repeated for ever, so nothing more is needed)
TaskFairSpec == TaskSpec /\ WF_vars(TaskNext)

(***************************************************************************)
(* Claims about the lint pass.                                             *)
(***************************************************************************)
\* the two reference-counted pointer declarations
PointerDecls == {"alloc::rc::Rc", "alloc::sync::Arc"}

\* the matcher's conditions, read off the candidate
MatcherConditions(e) ==
    /\ e.macro_call.some
    /\ e.vec_args = "Repeat"
    /\ e.elem.kind = "Call"
    /\ e.elem.func = "TypeRelative"
    /\ e.elem.ty = "Path"
    /\ e.elem.res \in DefIds
    /\ e.elem.seg = "new"
    /\ e.elem.res \in PointerDecls

KindOf(def_id) == IF def_id = "alloc::rc::Rc" THEN "Rc" ELSE "Arc"

\* C1: check_expr matches a candidate if and only if it is a repeat literal whose
\* element is a call of a Type::method path, the type resolves to a declaration, the
\* method is new and the declaration is Rc or Arc; the symbol it returns is then Rc
\* for alloc::rc::Rc and Arc for alloc::sync::Arc.  Every other candidate gives None.
C1_MatchIffConditions ==
    invoked =>
        /\ (matched # None) <=> MatcherConditions(expr)
        /\ MatcherConditions(expr) => matched = KindOf(expr.elem.res)

\* a repeat literal of a new call spelled Ptr that resolves to Arc has matched as Arc
C1_Witness ==
    /\ invoked
    /\ matched = "Arc"
    /\ expr.vec_args = "Repeat"
    /\ expr.elem.ty_src = <<"P", "t", "r">>

\* the text of the matched element as elem_snippet reads it, and the marker it looks for
ElemText == snippet(expr.elem.src, <<".", ".">>)
Marker == as_str(matched) \o <<":", ":", "n", "e", "w">>

\* C2: the suggestion builder has no failure path: for every match it completes and
\* hands over a diagnostic, and when the element's text has a line break the text
\* holds the marker <PointerKindName>::new.
C2_NoFailurePath ==
    (invoked /\ matched # None) =>
        /\ ~aborted
        /\ Len(diags) = 1
        /\ contains(ElemText, NL) => find(ElemText, Marker) # 0

\* the abbreviated form: the text before the first marker, the marker, then (..)
Abbreviated ==
    SubSeq(ElemText, 1, find(ElemText, Marker) - 1) \o Marker \o <<"(", ".", ".", ")">>

\* both suggestions of the diagnostic are built around the element snippet s
BothSuggestionsHold(s) ==
    LET len == snippet(expr.len_src, <<".", ".">>)
        ind == repeat(" ", indent_of_or_0(expr.indent))
    IN  /\ Len(diags) = 1
        /\ Len(diags[1].suggestions) = 2
        /\ diags[1].suggestions[1].snippet = loop_init_suggestion(s, len, ind)
        /\ diags[1].suggestions[2].snippet = extract_suggestion(s, len, ind)

\* C3: for every matched element, when its text has a line break both suggestions
\* hold the abbreviated form, which is never the raw text; when it has none both
\* hold the text itself.
C3_SnippetForm ==
    (invoked /\ matched # None) =>
        IF contains(ElemText, NL)
        THEN /\ find(ElemText, Marker) # 0
             /\ BothSuggestionsHold(Abbreviated)
             /\ Abbreviated # ElemText
        ELSE BothSuggestionsHold(ElemText)

\* C4: a candidate on which a condition of the matcher fails gives no diagnostic and
\* no other effect; a candidate that matches gives exactly one diagnostic.
C4_SilentOrExactlyOne ==
    invoked =>
        /\ ~MatcherConditions(expr) => (diags = <<>> /\ ~aborted)
        /\ MatcherConditions(expr) => Len(diags) = 1

\* C5: every emitted diagnostic carries exactly two suggestions, the loop rewrite
\* first and the extraction rewrite second, both on the span of the primary message
\* (the macro call's), and the message, the note and both captions name the pointer
\* kind the matcher returned.
C5_TwoSuggestionsInOrder ==
    \A n \in 1..Len(diags) :
        LET d == diags[n]
            name == as_str(matched)
        IN  /\ matched \in {"Rc", "Arc"}
            /\ d.span = expr.macro_call.val
            /\ d.message = <<"calling ", BQ>> \o name
                           \o <<"::new", BQ, " in ", BQ, "vec![elem; len]", BQ>>
            /\ d.notes = << <<"each element will point to the same ", BQ>>
                            \o name \o <<BQ, " instance">> >>
            /\ Len(d.suggestions) = 2
            /\ d.suggestions[1].span = d.span
            /\ d.suggestions[2].span = d.span
            /\ d.suggestions[1].message =
                 <<"consider initializing each ", BQ>> \o name
                 \o <<BQ, " element individually">>
            /\ d.suggestions[2].message =
                 <<"or if this is intentional, consider extracting the ", BQ>> \o name
                 \o <<BQ, " initialization to a variable">>
            /\ contains(d.suggestions[1].snippet, "let mut v = Vec::with_capacity(")
            /\ ~contains(d.suggestions[1].snippet, "let data = ")
            /\ contains(d.suggestions[2].snippet, "let data = ")
            /\ ~contains(d.suggestions[2].snippet, "let mut v = Vec::with_capacity(")

\* a diagnostic for an Arc element has been emitted at the second macro span
C5_Witness ==
    /\ Len(diags) = 1
    /\ matched = "Arc"
    /\ diags[1].span = 2
    /\ Len(diags[1].suggestions) = 2

\* the callee type of the latest candidate, when its element is a Type::new call
Cur == Summary(expr, matched)

\* C8: the matcher's result depends on the declaration the callee's type resolves
\* to, not on its spelling: two Type::new elements whose types resolve to the same
\* pointer declaration both match, with the same kind, and an element whose type
\* resolves to anything else does not match, spelled Rc or Arc or not.
C8_ByDeclarationNotSpelling ==
    invoked =>
        /\ (prev.eligible /\ Cur.eligible /\ prev.res = Cur.res /\ Cur.res \in PointerDecls)
             => (matched # None /\ prev.matched = matched)
        /\ (Cur.eligible /\ Cur.res \notin PointerDecls) => matched = None

\* two elements spelled differently, both resolving to alloc::rc::Rc, both matched
C8_Witness ==
    /\ invoked
    /\ prev.eligible
    /\ Cur.eligible
    /\ prev.res = "alloc::rc::Rc"
    /\ Cur.res = "alloc::rc::Rc"
    /\ prev.ty_src # Cur.ty_src
    /\ prev.matched = "Rc"
    /\ matched = "Rc"

(***************************************************************************)
(* Claims about test00.                                                    *)
(***************************************************************************)
\* C9: when the final check is reached, under every interleaving, the sum of the
\* received values is (4n)(4n-1)/2 and every value 0..4n-1 has been received exactly
\* once; the check does not fail.
C9_SumAtCheck ==
    /\ mpc # "failed"
    /\ mpc \in {"check", "done"} =>
        /\ sum = ((4 * number_of_messages) * (4 * number_of_messages - 1)) \div 2
        /\ \A v \in Values : got[v] = 1

\* the check has been passed
C9_Witness ==
    /\ mpc = "done"
    /\ sum = ((4 * number_of_messages) * (4 * number_of_messages - 1)) \div 2

AllSent == \A k \in Tasks : tasks[k].st = "done" /\ tasks[k].i = number_of_messages
NothingLeft == \A k \in Tasks : chans[k] = <<>>

\* C10: under fair scheduling test00 terminates: the final check is reached and
\* passed, and by then every task has finished its number_of_messages sends, all
\* 4 * number_of_messages receives have been satisfied and no message is left in
\* the port.
C10_Terminates ==
    /\ <>(mpc = "done")
    /\ [](mpc = "done" =>
            /\ AllSent
            /\ NothingLeft
            /\ mi = number_of_messages
            /\ \A v \in Values : got[v] = 1)

\* test00 has ended with every task done and the channels empty
C10_Witness ==
    /\ mpc = "done"
    /\ AllSent
    /\ NothingLeft

====
